---- MODULE Spec2Model ----
(***************************************************************************)
(* Model of the object storage of aidoc_project: LocalFileStorage over a   *)
(* base directory, its SerializerRegistry and the two built-in serializers *)
(* (JsonSerializer, NumpySerializer).                                      *)
(*                                                                         *)
(* Text is a sequence of one-character strings; since every character used *)
(* is ASCII, the UTF-8 bytes of a text are the same sequence.  A Python    *)
(* value is a pair <<type tag, payload>>.  A path is the sequence of its   *)
(* components below the base directory.                                    *)
(***************************************************************************)
EXTENDS Integers, Sequences, FiniteSets, TLC

\* ---------------------------------------------------------------- bounds
\* largest integer saved as a JSON value of its own
MaxInt == 1

\* ---------------------------------------------------------- Python values
PyNone == <<"none", <<>>>>
PyBool(b) == <<"bool", b>>
PyInt(n) == <<"int", n>>
PyStr(s) == <<"str", s>>
PyList(items) == <<"list", items>>
PyTuple(items) == <<"tuple", items>>
\* entries: a sequence of <<key value, value>>, in insertion order
PyDict(entries) == <<"dict", entries>>
\* an instance of a plain class; attrs: a sequence of <<name, value>> (its __dict__)
PyObject(attrs) == <<"object", attrs>>
\* a numpy array: data are the elements in row-major order
NdArray(dtype, shape, data) == <<"ndarray", <<dtype, shape, data>>>>

Tag(v) == v[1]
Payload(v) == v[2]

\* ------------------------------------------------------------ text helpers
NL == "\n"
SP == " "
QUOTE == "\""
DigitChars == <<"0", "1", "2", "3", "4", "5", "6", "7", "8", "9">>
IsDigit(c) == \E d \in 1..10 : DigitChars[d] = c
DigitVal(c) == (CHOOSE d \in 1..10 : DigitChars[d] = c) - 1

RECURSIVE NatText(_)
NatText(n) == IF n < 10 THEN <<DigitChars[n + 1]>>
              ELSE NatText(n \div 10) \o <<DigitChars[(n % 10) + 1]>>

\* str(n) for an int
IntText(n) == IF n < 0 THEN <<"-">> \o NatText(0 - n) ELSE NatText(n)

\* does text s carry the characters of lit from position i on
HasAt(s, i, lit) == /\ i + Len(lit) - 1 <= Len(s)
                    /\ \A j \in 1..Len(lit) : s[i + j - 1] = lit[j]

RECURSIVE Repeat(_, _)
Repeat(c, n) == IF n = 0 THEN <<>> ELSE <<c>> \o Repeat(c, n - 1)

\* str(value), as used for dictionary keys and as the last resort
StrOf(v) ==
    CASE Tag(v) = "str" -> Payload(v)
      [] Tag(v) = "int" -> IntText(Payload(v))
      [] Tag(v) = "bool" -> IF Payload(v) THEN <<"T", "r", "u", "e">>
                            ELSE <<"F", "a", "l", "s", "e">>
      [] Tag(v) = "none" -> <<"N", "o", "n", "e">>
      [] OTHER -> <<"<", Tag(v), ">">>

\* ---------------------------------------------------------- JsonSerializer
\* d[k] = v on an insertion-ordered dictionary
DictSet(entries, k, v) ==
    IF \E i \in 1..Len(entries) : entries[i][1] = k
    THEN [i \in 1..Len(entries) |->
            IF entries[i][1] = k THEN <<k, v>> ELSE entries[i]]
    ELSE Append(entries, <<k, v>>)

RECURSIVE _to_json_compatible(_)
RECURSIVE ConvertItems(_)
RECURSIVE ConvertEntries(_, _)

ConvertItems(items) ==
    IF items = <<>> THEN <<>>
    ELSE <<_to_json_compatible(Head(items))>> \o ConvertItems(Tail(items))

\* stringKeys: keys go through str() (a dict) or are kept (a __dict__)
ConvertEntries(entries, stringKeys) ==
    IF entries = <<>> THEN <<>>
    ELSE LET n == Len(entries)
             e == entries[n]
             k == IF stringKeys THEN PyStr(StrOf(e[1])) ELSE PyStr(e[1])
         IN  DictSet(ConvertEntries(SubSeq(entries, 1, n - 1), stringKeys),
                     k, _to_json_compatible(e[2]))

_to_json_compatible(value) ==
    CASE Tag(value) \in {"none", "str", "int", "bool"} -> value
      [] Tag(value) = "dict" -> PyDict(ConvertEntries(Payload(value), TRUE))
      [] Tag(value) \in {"list", "tuple"} -> PyList(ConvertItems(Payload(value)))
      [] Tag(value) = "object" -> PyDict(ConvertEntries(Payload(value), FALSE))
      [] OTHER -> PyStr(StrOf(value))

\* json.dumps(j, indent=2, ensure_ascii=False) at nesting depth level
RECURSIVE Dumps(_, _)
RECURSIVE DumpItems(_, _)
RECURSIVE DumpEntries(_, _)

DumpItems(items, level) ==
    LET one == Repeat(SP, 2 * level) \o Dumps(Head(items), level)
    IN  IF Len(items) = 1 THEN one
        ELSE one \o <<",", NL>> \o DumpItems(Tail(items), level)

DumpEntries(entries, level) ==
    LET e == Head(entries)
        one == Repeat(SP, 2 * level) \o Dumps(e[1], level) \o <<":", SP>>
                 \o Dumps(e[2], level)
    IN  IF Len(entries) = 1 THEN one
        ELSE one \o <<",", NL>> \o DumpEntries(Tail(entries), level)

Dumps(j, level) ==
    CASE Tag(j) = "none" -> <<"n", "u", "l", "l">>
      [] Tag(j) = "bool" -> IF Payload(j) THEN <<"t", "r", "u", "e">>
                            ELSE <<"f", "a", "l", "s", "e">>
      [] Tag(j) = "int" -> IntText(Payload(j))
      [] Tag(j) = "str" -> <<QUOTE>> \o Payload(j) \o <<QUOTE>>
      [] Tag(j) = "list" ->
            IF Payload(j) = <<>> THEN <<"[", "]">>
            ELSE <<"[", NL>> \o DumpItems(Payload(j), level + 1)
                   \o <<NL>> \o Repeat(SP, 2 * level) \o <<"]">>
      [] Tag(j) = "dict" ->
            IF Payload(j) = <<>> THEN <<"{", "}">>
            ELSE <<"{", NL>> \o DumpEntries(Payload(j), level + 1)
                   \o <<NL>> \o Repeat(SP, 2 * level) \o <<"}">>

\* faulty variant: every value takes the last resort, str(value)
JsonSerialize_str(value) == Dumps(PyStr(StrOf(value)), 0)

JsonSerialize(value) == Dumps(_to_json_compatible(value), 0)

\* a lone surrogate code point, which a str can hold and UTF-8 cannot encode
Surrogate == "\\ud800"
\* .encode("utf-8") raises UnicodeEncodeError
JsonSerializeRaises(value) ==
    LET text == Dumps(_to_json_compatible(value), 0)
    IN  \E i \in 1..Len(text) : text[i] = Surrogate

\* json.loads: a scanner result is <<matched, value, position after it>>
NoMatch == <<FALSE, PyNone, 0>>

RECURSIVE SkipWs(_, _)
SkipWs(s, i) == IF i <= Len(s) /\ s[i] \in {SP, NL} THEN SkipWs(s, i + 1) ELSE i

RECURSIVE DigitsEnd(_, _)
DigitsEnd(s, i) == IF i <= Len(s) /\ IsDigit(s[i]) THEN DigitsEnd(s, i + 1) ELSE i

RECURSIVE NatVal(_)
NatVal(ds) == IF ds = <<>> THEN 0
              ELSE 10 * NatVal(SubSeq(ds, 1, Len(ds) - 1)) + DigitVal(ds[Len(ds)])

RECURSIVE QuoteEnd(_, _)
QuoteEnd(s, i) == IF i > Len(s) THEN 0
                  ELSE IF s[i] = QUOTE THEN i ELSE QuoteEnd(s, i + 1)

ScanString(s, i) ==
    LET j == QuoteEnd(s, i + 1)
    IN  IF j = 0 THEN NoMatch ELSE <<TRUE, PyStr(SubSeq(s, i + 1, j - 1)), j + 1>>

RECURSIVE ScanValue(_, _)
RECURSIVE ScanItems(_, _, _)
RECURSIVE ScanEntries(_, _, _)

\* i is at the first character of an item; acc holds the items before it
ScanItems(s, i, acc) ==
    LET r == ScanValue(s, i)
        j == SkipWs(s, r[3])
    IN  IF ~r[1] \/ j > Len(s) THEN NoMatch
        ELSE IF s[j] = "]" THEN <<TRUE, PyList(Append(acc, r[2])), j + 1>>
        ELSE IF s[j] = "," THEN ScanItems(s, SkipWs(s, j + 1), Append(acc, r[2]))
        ELSE NoMatch

\* i is at the opening quote of a key; acc holds the entries before it
ScanEntries(s, i, acc) ==
    LET k == IF i <= Len(s) /\ s[i] = QUOTE THEN ScanString(s, i) ELSE NoMatch
        c == SkipWs(s, k[3])
        r == IF k[1] /\ c <= Len(s) /\ s[c] = ":"
             THEN ScanValue(s, SkipWs(s, c + 1)) ELSE NoMatch
        j == SkipWs(s, r[3])
        now == DictSet(acc, k[2], r[2])
    IN  IF ~r[1] \/ j > Len(s) THEN NoMatch
        ELSE IF s[j] = "}" THEN <<TRUE, PyDict(now), j + 1>>
        ELSE IF s[j] = "," THEN ScanEntries(s, SkipWs(s, j + 1), now)
        ELSE NoMatch

ScanValue(s, i) ==
    IF i > Len(s) THEN NoMatch
    ELSE CASE HasAt(s, i, <<"n", "u", "l", "l">>) -> <<TRUE, PyNone, i + 4>>
           [] HasAt(s, i, <<"t", "r", "u", "e">>) -> <<TRUE, PyBool(TRUE), i + 4>>
           [] HasAt(s, i, <<"f", "a", "l", "s", "e">>) -> <<TRUE, PyBool(FALSE), i + 5>>
           [] IsDigit(s[i]) ->
                LET j == DigitsEnd(s, i)
                IN  <<TRUE, PyInt(NatVal(SubSeq(s, i, j - 1))), j>>
           [] s[i] = "-" /\ i < Len(s) /\ IsDigit(s[i + 1]) ->
                LET j == DigitsEnd(s, i + 1)
                IN  <<TRUE, PyInt(0 - NatVal(SubSeq(s, i + 1, j - 1))), j>>
           [] s[i] = QUOTE -> ScanString(s, i)
           [] s[i] = "[" ->
                LET j == SkipWs(s, i + 1)
                IN  IF j <= Len(s) /\ s[j] = "]" THEN <<TRUE, PyList(<<>>), j + 1>>
                    ELSE ScanItems(s, j, <<>>)
           [] s[i] = "{" ->
                LET j == SkipWs(s, i + 1)
                IN  IF j <= Len(s) /\ s[j] = "}" THEN <<TRUE, PyDict(<<>>), j + 1>>
                    ELSE ScanEntries(s, j, <<>>)
           [] OTHER -> NoMatch

\* ------------------------------------------------- results of a call
Return(v) == <<"return", v>>
Raise(kind, msg) == <<"raise", <<kind, msg>>>>
Returned(res) == res[1] = "return"

\* json.loads(data.decode("utf-8")): the whole text must be one JSON value
JsonDeserialize(data) ==
    LET r == ScanValue(data, SkipWs(data, 1))
    IN  IF r[1] /\ SkipWs(data, r[3]) = Len(data) + 1 THEN Return(r[2])
        ELSE Raise("JSONDecodeError", "")

\* ---------------------------------------------------------- NumpySerializer
\* The .npy container: the magic string, then the header (descr, shape), then
\* the elements.  One token stands for one header field or one element word.
NpyMagic == "\\x93NUMPY"
DTypes == {"<i8", "<f8"}

RECURSIVE Product(_)
Product(dims) == IF dims = <<>> THEN 1 ELSE Head(dims) * Product(Tail(dims))

\* np.save(buffer, value); buffer.getvalue()
NpySerialize(value) ==
    LET a == Payload(value)
    IN  <<NpyMagic, a[1], "(">>
          \o [i \in 1..Len(a[2]) |-> DigitChars[a[2][i] + 1]]
          \o <<")">>
          \o [i \in 1..Len(a[3]) |-> DigitChars[a[3][i] + 1]]

RECURSIVE ShapeEnd(_, _)
ShapeEnd(s, i) == IF i > Len(s) THEN 0
                  ELSE IF s[i] = ")" THEN i
                  ELSE IF IsDigit(s[i]) THEN ShapeEnd(s, i + 1) ELSE 0

\* np.load(BytesIO(data)): reads the header and then exactly the elements
\* the shape asks for; bytes after them are not looked at
NpyDeserialize(data) ==
    IF ~(Len(data) >= 4 /\ data[1] = NpyMagic /\ data[2] \in DTypes /\ data[3] = "(")
    THEN Raise("ValueError", "")
    ELSE LET e == ShapeEnd(data, 4)
             shape == [i \in 1..(e - 4) |-> DigitVal(data[3 + i])]
             n == Product(shape)
         IN  IF e = 0 \/ Len(data) < e + n
                \/ \E i \in (e + 1)..(e + n) : ~IsDigit(data[i])
             THEN Raise("ValueError", "")
             ELSE Return(NdArray(data[2], shape,
                                 [i \in 1..n |-> DigitVal(data[e + i])]))

\* ------------------------------------------------------- SerializerRegistry
\* faulty variant: __init__ registers the NumpySerializer only
BuiltinRegistry_npy_only == "npy" :> "NumpySerializer"

\* _format_map after LocalFileStorage.__init__: format -> serializer
BuiltinRegistry == ("npy" :> "NumpySerializer") @@ ("json" :> "JsonSerializer")

\* format in self._format_map
Registered(reg, format) == format \in DOMAIN reg

Serialize(serializer, value) ==
    IF serializer = "NumpySerializer" THEN NpySerialize(value)
    ELSE JsonSerialize(value)

\* serializer.serialize(value) raises
SerializeRaises(serializer, value) ==
    serializer # "NumpySerializer" /\ JsonSerializeRaises(value)

Deserialize(serializer, data) ==
    IF serializer = "NumpySerializer" THEN NpyDeserialize(data)
    ELSE JsonDeserialize(data)

\* ------------------------------------------------------------------ paths
FORMAT_TO_EXTENSION ==
    ("json" :> <<".", "j", "s", "o", "n">>) @@ ("npy" :> <<".", "n", "p", "y">>)

\* format in self.FORMAT_TO_EXTENSION
KnownExtension(format) == format \in DOMAIN FORMAT_TO_EXTENSION

_get_extension(format) == FORMAT_TO_EXTENSION[format]

\* text.split("/")
RECURSIVE SplitSlash(_, _)
SplitSlash(text, cur) ==
    IF text = <<>> THEN <<cur>>
    ELSE IF Head(text) = "/" THEN <<cur>> \o SplitSlash(Tail(text), <<>>)
    ELSE SplitSlash(Tail(text), Append(cur, Head(text)))

\* pathlib: base / text keeps the components of text that are neither empty
\* nor "."; the result is the path below base
JoinBase(text) ==
    SelectSeq(SplitSlash(text, <<>>), LAMBDA c : c # <<>> /\ c # <<".">>)

\* faulty variant: the extension is left out of the file name
_build_path_no_extension(key, format) == JoinBase(key)

_build_path(key, format) == JoinBase(key \o _get_extension(format))

RECURSIVE LastDot(_, _)
LastDot(name, i) == IF i = 0 THEN 0
                    ELSE IF name[i] = "." THEN i ELSE LastDot(name, i - 1)

\* pathlib's Path.suffix of a file name
Suffix(name) ==
    LET i == LastDot(name, Len(name))
    IN  IF 1 < i /\ i < Len(name) THEN SubSeq(name, i, Len(name)) ELSE <<>>

\* ------------------------------------------------------------- file system
\* The content of the base directory: a map from the paths that exist below
\* it to their entries.
Absent == <<"absent", <<>>>>
Directory == <<"dir", <<>>>>
File(data) == <<"file", data>>

EntryAt(dir, p) == IF p \in DOMAIN dir THEN dir[p] ELSE Absent
\* Path.exists()
PathExists(dir, p) == p \in DOMAIN dir
\* faulty variant: a directory passes for a file
IsFile_any(dir, p) == p \in DOMAIN dir
\* Path.is_file()
IsFile(dir, p) == EntryAt(dir, p)[1] = "file"
\* Path.iterdir() of the base directory: its direct entries
IterDir(dir) == {p \in DOMAIN dir : Len(p) = 1}
\* the directory a path lies in exists
ParentIsDir(dir, p) ==
    Len(p) = 1 \/ EntryAt(dir, SubSeq(p, 1, Len(p) - 1)) = Directory

\* faulty variant: the file is opened without truncation, so what the old content had
\* beyond the new data stays
write_bytes_no_truncate(dir, p, data) ==
    LET old == IF EntryAt(dir, p)[1] = "file" THEN dir[p][2] ELSE <<>>
        kept == IF Len(old) > Len(data) THEN SubSeq(old, Len(data) + 1, Len(old))
                ELSE <<>>
    IN  [res |-> Return(PyNone),
         fs |-> [q \in DOMAIN dir \cup {p} |->
                    IF q = p THEN File(data \o kept) ELSE dir[q]]]

\* The two system calls of Path.write_bytes, which another caller's step can
\* come between.
\* open(mode="wb") of a path in an existing directory: the file is created
\* if missing and cut to length 0
open_wb(dir, p) ==
    [res |-> Return(PyNone),
     fs |-> [q \in DOMAIN dir \cup {p} |-> IF q = p THEN File(<<>>) ELSE dir[q]]]

\* f.write(data) and close, on the file opened at p: the data go to offset 0
\* of the file as it is now, over what it holds there
write_opened(dir, p, data) ==
    LET now == dir[p][2]
    IN  [res |-> Return(PyNone),
         fs |-> [dir EXCEPT ![p] =
                    File(data \o SubSeq(now, Len(data) + 1, Len(now)))]]

\* Path.write_bytes(data): open(mode="wb") truncates, then the data are written
write_bytes(dir, p, data) ==
    IF ~ParentIsDir(dir, p)
    THEN [res |-> Raise("FileNotFoundError", ""), fs |-> dir]
    ELSE IF EntryAt(dir, p) = Directory
    THEN [res |-> Raise("IsADirectoryError", ""), fs |-> dir]
    ELSE [res |-> Return(PyNone),
          fs |-> [q \in DOMAIN dir \cup {p} |-> IF q = p THEN File(data) ELSE dir[q]]]

\* Path.read_bytes()
read_bytes(dir, p) ==
    IF ~PathExists(dir, p) THEN Raise("FileNotFoundError", "")
    ELSE IF dir[p] = Directory THEN Raise("IsADirectoryError", "")
    ELSE Return(dir[p][2])

\* faulty variant: the file is not removed
unlink_keep(dir, p) == [res |-> Return(PyNone), fs |-> dir]

\* Path.unlink()
unlink(dir, p) ==
    IF ~PathExists(dir, p)
    THEN [res |-> Raise("FileNotFoundError", ""), fs |-> dir]
    ELSE IF dir[p] = Directory
    THEN [res |-> Raise("IsADirectoryError", ""), fs |-> dir]
    ELSE [res |-> Return(PyNone), fs |-> [q \in DOMAIN dir \ {p} |-> dir[q]]]

\* --------------------------------------------------------- LocalFileStorage
UnsupportedFormat == {Raise("KeyError", "No serializer registered for format"),
                      Raise("KeyError", "Unknown format")}
NotFound == Raise("KeyError", "Key not found")

\* faulty variant: save looks both the serializer and the extension up with a default
\* (json, no extension) and so never refuses a format
save_with_defaults(dir, reg, key, value, format) ==
    write_bytes(dir,
                JoinBase(key \o (IF KnownExtension(format)
                                 THEN _get_extension(format) ELSE <<>>)),
                Serialize(IF Registered(reg, format) THEN reg[format]
                          ELSE "JsonSerializer", value))

\* faulty variant: delete reports an unknown format as nothing to delete
delete_lenient(dir, key, format) ==
    IF ~KnownExtension(format) THEN [res |-> Return(PyBool(FALSE)), fs |-> dir]
    ELSE IF ~PathExists(dir, _build_path(key, format))
    THEN [res |-> Return(PyBool(FALSE)), fs |-> dir]
    ELSE [res |-> Return(PyBool(TRUE)),
          fs |-> unlink(dir, _build_path(key, format)).fs]

\* faulty variant: get looks for the file before it asks the registry
get_exists_first(dir, reg, key, format) ==
    IF ~KnownExtension(format)
    THEN [res |-> Raise("KeyError", "Unknown format"), fs |-> dir]
    ELSE IF ~PathExists(dir, _build_path(key, format))
    THEN [res |-> NotFound, fs |-> dir]
    ELSE IF ~Registered(reg, format)
    THEN [res |-> Raise("KeyError", "No serializer registered for format"), fs |-> dir]
    ELSE [res |-> Deserialize(reg[format], read_bytes(dir, _build_path(key, format))[2]),
          fs |-> dir]

\* faulty variant: save opens the file before it serializes the value
save_open_first(dir, reg, key, value, format) ==
    IF ~Registered(reg, format)
    THEN [res |-> Raise("KeyError", "No serializer registered for format"), fs |-> dir]
    ELSE IF ~KnownExtension(format)
    THEN [res |-> Raise("KeyError", "Unknown format"), fs |-> dir]
    ELSE IF SerializeRaises(reg[format], value)
    THEN [res |-> Raise("UnicodeEncodeError", ""),
          fs |-> open_wb(dir, _build_path(key, format)).fs]
    ELSE write_bytes(dir, _build_path(key, format), Serialize(reg[format], value))

\* Each method maps the directory to [res: what the call returns or raises,
\* fs: the directory after the call].
save(dir, reg, key, value, format) ==
    IF ~Registered(reg, format)
    THEN [res |-> Raise("KeyError", "No serializer registered for format"), fs |-> dir]
    ELSE IF ~KnownExtension(format)
    THEN [res |-> Raise("KeyError", "Unknown format"), fs |-> dir]
    ELSE IF SerializeRaises(reg[format], value)
    THEN [res |-> Raise("UnicodeEncodeError", ""), fs |-> dir]
    ELSE write_bytes(dir, _build_path(key, format), Serialize(reg[format], value))

get(dir, reg, key, format) ==
    IF ~Registered(reg, format)
    THEN [res |-> Raise("KeyError", "No serializer registered for format"), fs |-> dir]
    ELSE IF ~KnownExtension(format)
    THEN [res |-> Raise("KeyError", "Unknown format"), fs |-> dir]
    ELSE LET file_path == _build_path(key, format)
             data == read_bytes(dir, file_path)
         IN  IF ~PathExists(dir, file_path) THEN [res |-> NotFound, fs |-> dir]
             ELSE IF ~Returned(data) THEN [res |-> data, fs |-> dir]
             ELSE [res |-> Deserialize(reg[format], data[2]), fs |-> dir]

exists(dir, key, format) ==
    IF ~KnownExtension(format)
    THEN [res |-> Raise("KeyError", "Unknown format"), fs |-> dir]
    ELSE [res |-> Return(PyBool(PathExists(dir, _build_path(key, format)))),
          fs |-> dir]

count(dir) ==
    LET supported == {FORMAT_TO_EXTENSION[f] : f \in DOMAIN FORMAT_TO_EXTENSION}
    IN  [res |-> Return(PyInt(Cardinality(
                    {f \in IterDir(dir) : IsFile(dir, f) /\ Suffix(f[1]) \in supported}))),
         fs |-> dir]

delete(dir, key, format) ==
    IF ~KnownExtension(format)
    THEN [res |-> Raise("KeyError", "Unknown format"), fs |-> dir]
    ELSE LET file_path == _build_path(key, format)
             gone == unlink(dir, file_path)
         IN  IF ~PathExists(dir, file_path)
             THEN [res |-> Return(PyBool(FALSE)), fs |-> dir]
             ELSE IF ~Returned(gone.res) THEN gone
             ELSE [res |-> Return(PyBool(TRUE)), fs |-> gone.fs]

\* ------------------------------------------------------------------ inputs
\* keys: a plain name, a name with a leading dot, and a name with a path prefix
Keys == {<<"a">>, <<".", "a">>, <<".", "/", "a">>}

JsonValues ==
    {PyInt(n) : n \in 1..MaxInt}
      \cup {PyList(<<PyInt(1)>>), PyTuple(<<PyInt(1)>>),
            PyDict(<<<<PyStr(<<"k">>), PyInt(1)>>>>),
            PyObject(<<<<<<"k">>, PyInt(1)>>>>),
            PyStr(<<Surrogate>>)}

NpyValues == {NdArray("<i8", <<1, 2>>, <<0, 1>>)}

ValuesFor(format) ==
    CASE format = "npy" -> NpyValues
      [] format = "json" -> JsonValues
      [] OTHER -> {PyInt(1)}

\* what a base directory that is not empty at construction holds: a file with
\* another suffix, a file named like an extension, a dot file with a known
\* suffix, a subdirectory with a known suffix and a file inside it
ForeignEntries ==
    (<<<<"n", ".", "t", "x", "t">>>> :> File(<<"x">>))
      @@ (<<<<".", "j", "s", "o", "n">>>> :> File(<<"1">>))
      @@ (<<<<".", "h", ".", "j", "s", "o", "n">>>> :> File(<<"1">>))
      @@ (<<<<"d", ".", "n", "p", "y">>>> :> Directory)
      @@ (<<<<"d", ".", "n", "p", "y">>, <<"x", ".", "j", "s", "o", "n">>>> :> File(<<"1">>))

\* -------------------------------------------------------------------- state
VARIABLES
    fs,        \* the content of the base directory
    registry,  \* self._registry._format_map
    last,      \* the latest call: what it was given and what it returned
    objs,      \* the (key, format) pairs saved and not deleted since
    initial,   \* the content of the base directory at the first construction
    format_order,  \* list(self._format_map): the registered formats in
                   \* the order of their first registration
    history,   \* the serializers given to register so far, in order
    pc,        \* where the demo driver (main) stands
    threads    \* the calls of concurrent callers that are under way

\* what the calls of a single caller on one storage leave alone
others == <<format_order, history, pc, threads>>

vars == <<fs, registry, last, objs, initial, format_order, history, pc, threads>>

\* a record of a call: pre is the entry at the call's path before the call;
\* after says whether the call before it was a save or a delete of the same
\* key and format that returned (a delete: returned True)
Call(op, key, format, value, res, pre, after) ==
    [op |-> op, key |-> key, fmt |-> format, val |-> value, res |-> res,
     pre |-> pre, after |-> after]

After(op, key, format) ==
    IF /\ last.key = key /\ last.fmt = format
       /\ \/ last.op = "save" /\ Returned(last.res)
          \/ last.op = "delete" /\ last.res = Return(PyBool(TRUE))
    THEN last.op ELSE "other"

PreEntry(key, format) ==
    IF KnownExtension(format) THEN EntryAt(fs, _build_path(key, format)) ELSE Absent

\* LocalFileStorage.__init__ over a base directory holding `content`:
\* mkdir(parents=True, exist_ok=True) creates a missing directory (empty) and
\* leaves an existing one as it is; the registry gets the two built-in
\* serializers
Construct(content) ==
    /\ fs = content
    /\ registry = BuiltinRegistry
    /\ last = Call("init", <<>>, "", PyNone, Return(PyNone), Absent, "other")
    /\ objs = {}
    /\ initial = content
    /\ format_order = <<"npy", "json">>
    /\ history = <<>>
    /\ pc = "none"
    /\ threads = <<>>

\* a storage over a missing or empty base directory
Init == Construct(<<>>)

\* a storage over a base directory that holds entries of other origin
InitExisting == Construct(ForeignEntries)

\* the calls made: every key with every known format, and one key with a
\* format string that is neither registered nor has an extension
Inputs == (Keys \X DOMAIN FORMAT_TO_EXTENSION) \cup {<<<<"a">>, "xml">>}

SaveOf(inputs) ==
    \E <<key, format>> \in inputs :
      \E value \in ValuesFor(format) :
        LET out == save(fs, registry, key, value, format)
        IN  /\ fs' = out.fs
            /\ last' = Call("save", key, format, value, out.res,
                            PreEntry(key, format), After("save", key, format))
            /\ objs' = IF Returned(out.res) THEN objs \cup {<<key, format>>} ELSE objs
            /\ UNCHANGED <<registry, initial, others>>

GetOf(inputs) ==
    \E <<key, format>> \in inputs :
        LET out == get(fs, registry, key, format)
        IN  /\ fs' = out.fs
            /\ last' = Call("get", key, format, PyNone, out.res,
                            PreEntry(key, format), After("get", key, format))
            /\ UNCHANGED <<registry, objs, initial, others>>

ExistsOf(inputs) ==
    \E <<key, format>> \in inputs :
        LET out == exists(fs, key, format)
        IN  /\ fs' = out.fs
            /\ last' = Call("exists", key, format, PyNone, out.res,
                            PreEntry(key, format), After("exists", key, format))
            /\ UNCHANGED <<registry, objs, initial, others>>

Count ==
    LET out == count(fs)
    IN  /\ fs' = out.fs
        /\ last' = Call("count", <<>>, "", PyNone, out.res, Absent, "other")
        /\ UNCHANGED <<registry, objs, initial, others>>

DeleteOf(inputs) ==
    \E <<key, format>> \in inputs :
        LET out == delete(fs, key, format)
        IN  /\ fs' = out.fs
            /\ last' = Call("delete", key, format, PyNone, out.res,
                            PreEntry(key, format), After("delete", key, format))
            /\ objs' = IF Returned(out.res) THEN objs \ {<<key, format>>} ELSE objs
            /\ UNCHANGED <<registry, initial, others>>

\* the calls of the model's caller, over Inputs
Save == SaveOf(Inputs)
Get == GetOf(Inputs)
Exists == ExistsOf(Inputs)
Delete == DeleteOf(Inputs)

Next == Save \/ Get \/ Exists \/ Count \/ Delete

Spec == Init /\ [][Next]_vars

SpecExisting == InitExisting /\ [][Next]_vars

\* ================================================================== claims
KnownFormats == DOMAIN FORMAT_TO_EXTENSION
\* a key without a path separator
Plain(key) == \A i \in 1..Len(key) : key[i] # "/"
PlainKeys == {k \in Keys : Plain(k)}
True == Return(PyBool(TRUE))
False == Return(PyBool(FALSE))
\* the call recorded in c is about the same key and format as the one in d
SamePair(c, d) == c.key = d.key /\ c.fmt = d.fmt
\* the file name key + extension, as one name
FileName(key, format) == <<key \o FORMAT_TO_EXTENSION[format]>>
EndsWith(name, ext) ==
    Len(name) >= Len(ext) /\ SubSeq(name, Len(name) - Len(ext) + 1, Len(name)) = ext

\* a value made of None, booleans, integers, strings, lists and dictionaries
\* with string keys only
RECURSIVE JsonNative(_)
JsonNative(v) ==
    CASE Tag(v) \in {"none", "bool", "int", "str"} -> TRUE
      [] Tag(v) = "list" -> \A i \in 1..Len(Payload(v)) : JsonNative(Payload(v)[i])
      [] Tag(v) = "dict" ->
            \A i \in 1..Len(Payload(v)) :
                Tag(Payload(v)[i][1]) = "str" /\ JsonNative(Payload(v)[i][2])
      [] OTHER -> FALSE

C2_CountIsLivePairs ==
    (initial = <<>> /\ last.op = "count")
        => last.res = Return(PyInt(Cardinality(objs)))

\* ---- C3
\* C3: over a base directory that was empty at construction, for a pair of a
\* key and a supported format that is not saved, exists returns False and get
\* raises KeyError "Key not found", and neither changes the directory.
C3_UnsavedIsAbsent ==
    [][(initial = <<>> /\ last'.fmt \in KnownFormats
          /\ <<last'.key, last'.fmt>> \notin objs)
        => /\ last'.op = "exists" => last'.res = False /\ fs' = fs
           /\ last'.op = "get" => last'.res = NotFound /\ fs' = fs]_vars

\* ---- C4
\* C4: a delete of a pair whose file exists returns True; a delete that
\* directly follows it on the same pair returns False; after either the file
\* is gone and exists returns False; a delete with a known format never raises.
C4_DeleteTwice ==
    /\ [][last'.op = "delete" /\ last'.fmt \in KnownFormats
          => /\ Returned(last'.res)
             /\ PathExists(fs, _build_path(last'.key, last'.fmt)) => last'.res = True
             /\ (last.op = "delete" /\ last.res = True /\ SamePair(last', last))
                  => last'.res = False
             /\ exists(fs', last'.key, last'.fmt).res = False]_vars

C4_Witness ==
    last.op = "delete" /\ last.after = "delete" /\ last.res = False

\* ---- C5
\* C5: a save with a format that has no registered serializer raises the
\* registry's KeyError and leaves the directory as it was.
C5_UnregisteredSave ==
    [][last'.op = "save" /\ ~Registered(registry, last'.fmt)
        => /\ last'.res = Raise("KeyError", "No serializer registered for format")
           /\ fs' = fs]_vars

C5_Witness ==
    /\ last.op = "save" /\ last.fmt = "xml" /\ last.res \in UnsupportedFormat
    /\ fs # <<>>

\* ---- C6
\* C6: exists never raises, whatever the format string: it returns a boolean.
C6_ExistsNeverFails ==
    last.op = "exists" => last.res \in {True, False}

C8_OverwriteEqual ==
    [][(last'.op = "save" /\ Returned(last'.res)
          /\ PathExists(fs, _build_path(last'.key, last'.fmt)))
        => /\ get(fs', registry, last'.key, last'.fmt).res = Return(last'.val)
           /\ exists(fs', last'.key, last'.fmt).res = True
           /\ count(fs').res = count(fs).res]_vars

\* C8 as amended: a successful save of v2 over a pair whose file exists
\* replaces the file's bytes by the bytes of v2 and nothing else: get then
\* returns v2 in its stored form (the array, or the JSON form of v2), exists
\* returns True and count() returns what it returned before the save.
C8_Overwrite ==
    [][(last'.op = "save" /\ Returned(last'.res)
          /\ PathExists(fs, _build_path(last'.key, last'.fmt)))
        => /\ fs'[_build_path(last'.key, last'.fmt)]
                = File(Serialize(registry[last'.fmt], last'.val))
           /\ get(fs', registry, last'.key, last'.fmt).res
                = Return(IF last'.fmt = "json" THEN _to_json_compatible(last'.val)
                         ELSE last'.val)
           /\ JsonNative(last'.val) \/ last'.fmt = "npy"
                => get(fs', registry, last'.key, last'.fmt).res = Return(last'.val)
           /\ exists(fs', last'.key, last'.fmt).res = True
           /\ count(fs').res = count(fs).res]_vars

\* the save replaced a longer content by a shorter one
C8_Witness ==
    /\ last.op = "save" /\ Returned(last.res) /\ last.pre[1] = "file"
    /\ Len(last.pre[2]) > Len(fs[_build_path(last.key, last.fmt)][2])

\* ---- C9
\* C9: for keys without a path separator, the path of a pair is the single
\* name key + extension, distinct pairs have distinct paths, exists tells
\* whether that file is there, and a save or a delete of one pair leaves what
\* exists and get return for every other pair as it was.
C9_Frame ==
    /\ [](\A k \in PlainKeys, f \in KnownFormats :
            /\ _build_path(k, f) = FileName(k, f)
            /\ exists(fs, k, f).res = Return(PyBool(FileName(k, f) \in DOMAIN fs))
            /\ \A k2 \in PlainKeys, f2 \in KnownFormats :
                  <<k2, f2>> # <<k, f>> => _build_path(k2, f2) # _build_path(k, f))
    /\ [][(last'.op \in {"save", "delete"} /\ Plain(last'.key))
          => \A k \in PlainKeys, f \in KnownFormats :
                <<k, f>> # <<last'.key, last'.fmt>>
                  => /\ exists(fs', k, f).res = exists(fs, k, f).res
                     /\ get(fs', registry, k, f).res = get(fs, registry, k, f).res]_vars

\* a save of a key that is also stored under the other format
C9_Witness ==
    /\ last.op = "save" /\ Returned(last.res) /\ Plain(last.key) /\ last.fmt = "json"
    /\ last.pre[1] = "file"
    /\ PathExists(fs, _build_path(last.key, "npy"))

\* ---- C10
\* C10 as stated: count() returns the number of regular files directly inside
\* the base directory that end in a known extension and are not hidden (their
\* name does not begin with a dot).
C10_HiddenNotCounted ==
    last.op = "count"
      => last.res = Return(PyInt(Cardinality(
            {p \in DOMAIN fs :
                /\ Len(p) = 1 /\ fs[p][1] = "file" /\ p[1][1] # "."
                /\ \E f \in KnownFormats : EndsWith(p[1], FORMAT_TO_EXTENSION[f])})))

\* C10 as amended: count() returns the number of regular files directly inside
\* the base directory whose name is a non-empty stem followed by a known
\* extension, whether or not the name begins with a dot; other suffixes,
\* subdirectories and what they hold, and a file named like an extension
\* alone are not counted.
C10_CountPolicy ==
    last.op = "count"
      => last.res = Return(PyInt(Cardinality(
            {p \in DOMAIN fs :
                /\ Len(p) = 1 /\ fs[p][1] = "file"
                /\ \E f \in KnownFormats :
                     /\ EndsWith(p[1], FORMAT_TO_EXTENSION[f])
                     /\ Len(p[1]) > Len(FORMAT_TO_EXTENSION[f])})))

\* count() over a directory with foreign entries and two stored objects
C10_Witness ==
    last.op = "count" /\ initial = ForeignEntries /\ last.res = Return(PyInt(3))

\* ============================================== SerializerRegistry by itself
\* the longest sequence of register calls followed
MaxRegisters == 3

\* serializer instances: the two built-in ones, a second instance of each
\* class, and an instance of a Serializer subclass of the caller's own
Serializers ==
    {"NumpySerializer", "JsonSerializer", "NumpySerializer_2", "JsonSerializer_2",
     "XmlSerializer"}

\* serializer.format
FormatOf(serializer) ==
    CASE serializer \in {"NumpySerializer", "NumpySerializer_2"} -> "npy"
      [] serializer \in {"JsonSerializer", "JsonSerializer_2"} -> "json"
      [] OTHER -> "xml"

\* the formats looked up: those of the serializers and one nobody registers
RegistryFormats == {"json", "npy", "xml", "csv"}

\* faulty variant: register keeps the serializer a format already has
register_keep_first(reg, order, serializer) ==
    IF FormatOf(serializer) \in DOMAIN reg THEN [map |-> reg, order |-> order]
    ELSE [map |-> (FormatOf(serializer) :> serializer) @@ reg,
          order |-> Append(order, FormatOf(serializer))]

\* self._format_map[serializer.format] = serializer, on the dict given as its
\* mapping and the order of its keys: a new key goes to the end, a key that
\* is present keeps its place and gets the new value
register(reg, order, serializer) ==
    [map |-> (FormatOf(serializer) :> serializer) @@ reg,
     order |-> IF FormatOf(serializer) \in DOMAIN reg THEN order
               ELSE Append(order, FormatOf(serializer))]

registry_get(reg, format) ==
    IF ~Registered(reg, format)
    THEN Raise("KeyError", "No serializer registered for format")
    ELSE Return(reg[format])

\* list(self._format_map.keys())
supported_formats(reg, order) == order

\* SerializerRegistry(): an empty mapping
InitRegistry ==
    /\ registry = <<>>
    /\ format_order = <<>>
    /\ history = <<>>
    /\ last = Call("init", <<>>, "", PyNone, Return(PyNone), Absent, "other")
    /\ fs = <<>>
    /\ objs = {}
    /\ initial = <<>>
    /\ pc = "none"
    /\ threads = <<>>

Register ==
    \E serializer \in Serializers :
        LET out == register(registry, format_order, serializer)
        IN  /\ Len(history) < MaxRegisters
            /\ registry' = out.map
            /\ format_order' = out.order
            /\ history' = Append(history, serializer)
            /\ last' = Call("register", <<>>, FormatOf(serializer), serializer,
                            Return(PyNone), Absent, "other")
            /\ UNCHANGED <<fs, objs, initial, pc, threads>>

RegistryGet ==
    \E format \in RegistryFormats :
        /\ last' = Call("registry_get", <<>>, format, PyNone,
                        registry_get(registry, format), Absent, "other")
        /\ UNCHANGED <<fs, registry, objs, initial, others>>

SupportedFormats ==
    /\ last' = Call("supported_formats", <<>>, "", PyNone,
                    Return(supported_formats(registry, format_order)), Absent, "other")
    /\ UNCHANGED <<fs, registry, objs, initial, others>>

NextRegistry == Register \/ RegistryGet \/ SupportedFormats

SpecRegistry == InitRegistry /\ [][NextRegistry]_vars

\* ---- C12
\* the places in the history of register calls where a serializer of the
\* format was given
RegisteredAt(format) == {i \in 1..Len(history) : FormatOf(history[i]) = format}
Latest(S) == CHOOSE i \in S : \A j \in S : j <= i

\* C12: after any sequence of register calls, get(format) returns the
\* serializer most recently registered under the format and fails with
\* KeyError exactly when none ever was; register returns normally, and
\* registering the serializer just registered changes nothing;
\* supported_formats lists exactly the formats registered, each once.
C12_Registry ==
    [][/\ \A format \in RegistryFormats :
            registry_get(registry', format) =
                IF RegisteredAt(format)' = {}
                THEN Raise("KeyError", "No serializer registered for format")
                ELSE Return(history'[Latest(RegisteredAt(format)')])
       /\ last'.op = "registry_get"
            => last'.res = registry_get(registry', last'.fmt)
       /\ last'.op = "register" => last'.res = Return(PyNone)
       /\ last'.op = "register" /\ last.op = "register" /\ last'.val = last.val
            => registry' = registry /\ format_order' = format_order
       /\ LET formats == supported_formats(registry', format_order')
          IN  /\ {formats[i] : i \in 1..Len(formats)} =
                    {FormatOf(history'[i]) : i \in 1..Len(history')}
              /\ \A i, j \in 1..Len(formats) : formats[i] = formats[j] => i = j
              /\ last'.op = "supported_formats" => last'.res = Return(formats)]_vars

\* a lookup after a serializer replaced another of its format
C12_Witness ==
    /\ last.op = "registry_get" /\ last.fmt = "json"
    /\ history = <<"JsonSerializer", "NumpySerializer", "JsonSerializer_2">>
    /\ last.res = Return("JsonSerializer_2")
    /\ format_order = <<"json", "npy">>

\* ================================ a storage whose registry lost a serializer
\* The serializer of a format is taken out of the storage's registry after
\* construction; FORMAT_TO_EXTENSION keeps the format.
unregister(reg, order, format) ==
    [map |-> [f \in DOMAIN reg \ {format} |-> reg[f]],
     order |-> SelectSeq(order, LAMBDA f : f # format)]

Unregister ==
    \E format \in DOMAIN registry :
        LET out == unregister(registry, format_order, format)
        IN  /\ registry' = out.map
            /\ format_order' = out.order
            /\ last' = Call("unregister", <<>>, format, PyNone, Return(PyNone),
                            Absent, "other")
            /\ UNCHANGED <<fs, objs, initial, history, pc, threads>>

\* one key with every known format and with an unknown one
OneKey == {<<"a">>} \X {"json", "npy", "xml"}

SaveOneKey == SaveOf(OneKey)
GetOneKey == GetOf(OneKey)
ExistsOneKey == ExistsOf(OneKey)
DeleteOneKey == DeleteOf(OneKey)

NextUnregistered ==
    Unregister \/ SaveOneKey \/ GetOneKey \/ ExistsOneKey \/ DeleteOneKey

SpecUnregistered == Init /\ [][NextUnregistered]_vars

\* ---- C11
\* C11: for a format that has an extension, exists answers by the presence
\* of the file alone, also when the format has no registered serializer; get
\* with a format that has no registered serializer fails with the registry's
\* KeyError (unsupported format), never with "Key not found", whether the
\* file is there or not.
C11_FormatBeforeFile ==
    /\ last.op = "exists" /\ KnownExtension(last.fmt)
         => last.res = Return(PyBool(last.pre # Absent))
    /\ last.op = "get" /\ ~Registered(registry, last.fmt)
         => /\ last.res = Raise("KeyError", "No serializer registered for format")
            /\ last.res # NotFound

\* get of an object whose file is there, exists says so, and whose format has
\* an extension but no serializer any more
C11_Witness ==
    /\ last.op = "get" /\ last.fmt = "json" /\ ~Registered(registry, "json")
    /\ last.pre # Absent
    /\ exists(fs, last.key, last.fmt).res = True
    /\ last.res \in UnsupportedFormat

\* ========================================================= the demo driver
\* SomeClass(chr(65 + i), i)
SomeClass(i) ==
    PyObject(<<<<<<"t", "x", "t">>, PyStr(<<<<"A", "B", "C", "D", "E">>[i + 1]>>)>>,
               <<<<"n", "u", "m", "b", "e", "r">>, PyInt(i)>>>>)

\* np.array([[1, 2, 3], [4, 5, 6]])
Matrix == NdArray("<i8", <<2, 3>>, <<1, 2, 3, 4, 5, 6>>)
MatrixKey == <<"m", "a", "t", "r", "i", "x">>

\* str(i)
DemoKey(i) == <<DigitChars[i + 1]>>
DemoRange == 0..4

\* main() on a fresh base directory, before its first save.  pc holds the
\* saves of the loop done so far and whether the matrix was saved and key
\* '0' deleted.
InitDemo ==
    /\ fs = <<>>
    /\ registry = BuiltinRegistry
    /\ last = Call("init", <<>>, "", PyNone, Return(PyNone), Absent, "other")
    /\ objs = {}
    /\ initial = <<>>
    /\ format_order = <<"npy", "json">>
    /\ history = <<>>
    /\ pc = [saved |-> {}, matrix |-> FALSE, deleted |-> FALSE]
    /\ threads = <<>>

\* storage.save(str(i), SomeClass(chr(65 + i), i), "json"), the five saves
\* taken in any order
DemoSave ==
    \E i \in DemoRange \ pc.saved :
        LET out == save(fs, registry, DemoKey(i), SomeClass(i), "json")
        IN  /\ fs' = out.fs
            /\ last' = Call("save", DemoKey(i), "json", SomeClass(i), out.res,
                            PreEntry(DemoKey(i), "json"), After("save", DemoKey(i), "json"))
            /\ objs' = IF Returned(out.res) THEN objs \cup {<<DemoKey(i), "json">>} ELSE objs
            /\ pc' = [pc EXCEPT !.saved = @ \cup {i}]
            /\ UNCHANGED <<registry, initial, format_order, history, threads>>

\* the calls after the loop change last and fs only, as the method says
DemoCall(op, key, format, out) ==
    /\ pc.saved = DemoRange
    /\ fs' = out.fs
    /\ last' = Call(op, key, format, PyNone, out.res,
                    PreEntry(key, format), After(op, key, format))

DemoCount ==
    /\ DemoCall("count", <<>>, "", count(fs))
    /\ UNCHANGED <<registry, objs, initial, others>>

DemoExists ==
    \E key \in {DemoKey(4), DemoKey(5)} :
        /\ DemoCall("exists", key, "json", exists(fs, key, "json"))
        /\ UNCHANGED <<registry, objs, initial, others>>

DemoGet ==
    /\ DemoCall("get", DemoKey(2), "json", get(fs, registry, DemoKey(2), "json"))
    /\ UNCHANGED <<registry, objs, initial, others>>

DemoSaveMatrix ==
    LET out == save(fs, registry, MatrixKey, Matrix, "npy")
    IN  /\ pc.saved = DemoRange /\ ~pc.matrix /\ ~pc.deleted
        /\ fs' = out.fs
        /\ last' = Call("save", MatrixKey, "npy", Matrix, out.res,
                        PreEntry(MatrixKey, "npy"), After("save", MatrixKey, "npy"))
        /\ objs' = IF Returned(out.res) THEN objs \cup {<<MatrixKey, "npy">>} ELSE objs
        /\ pc' = [pc EXCEPT !.matrix = TRUE]
        /\ UNCHANGED <<registry, initial, format_order, history, threads>>

DemoGetMatrix ==
    /\ pc.matrix
    /\ DemoCall("get", MatrixKey, "npy", get(fs, registry, MatrixKey, "npy"))
    /\ UNCHANGED <<registry, objs, initial, others>>

DemoDelete ==
    LET out == delete(fs, DemoKey(0), "json")
    IN  /\ ~pc.deleted
        /\ DemoCall("delete", DemoKey(0), "json", out)
        /\ objs' = IF Returned(out.res) THEN objs \ {<<DemoKey(0), "json">>} ELSE objs
        /\ pc' = [pc EXCEPT !.deleted = TRUE]
        /\ UNCHANGED <<registry, initial, format_order, history, threads>>

NextDemo ==
    \/ DemoSave \/ DemoCount \/ DemoExists \/ DemoGet
    \/ DemoSaveMatrix \/ DemoGetMatrix \/ DemoDelete

SpecDemo == InitDemo /\ [][NextDemo]_vars

\* ---- C13
\* C13: on a fresh base directory, once keys '0'..'4' are saved under json
\* and nothing else is, count() is 5, exists('4', 'json') is true and
\* exists('5', 'json') is false; once key '0' is then deleted, count() is 4.
C13_Demo ==
    pc.saved = DemoRange /\ ~pc.matrix
      => /\ ~pc.deleted
              => /\ last.op = "count" => last.res = Return(PyInt(5))
                 /\ last.op = "exists" /\ last.key = DemoKey(4) => last.res = True
         /\ last.op = "exists" /\ last.key = DemoKey(5) => last.res = False
         /\ pc.deleted /\ last.op = "count" => last.res = Return(PyInt(4))

\* the count after the five saves and the delete of key '0'
C13_Witness ==
    /\ pc.saved = DemoRange /\ ~pc.matrix /\ pc.deleted
    /\ objs = {<<DemoKey(i), "json">> : i \in 1..4}
    /\ last.op = "count" /\ last.res = Return(PyInt(4))

\* ================================================= two callers at one object
\* Two callers (threads or processes) make one call each on the pair
\* ('a', 'json') of one base directory.  A call is a sequence of steps, one
\* per file system call it makes, and the steps of the two interleave.
Callers == {1, 2}
RaceKey == <<"a">>
RacePath == _build_path(RaceKey, "json")
\* what the two saves write: serializations of different length
RaceValues == {PyInt(1), PyList(<<PyInt(1)>>)}
\* what the object holds at the start, when it exists
StoredFirst == PyDict(<<<<PyStr(<<"k">>), PyInt(1)>>>>)

Pending == <<"pending", <<>>>>
\* a caller: op is its call ("none" before it), at its position in the call,
\* fd its open file ("open", or "orphan" once the name it opened was
\* unlinked), data what it is about to write, res what the call gave
Idle == [op |-> "none", val |-> PyNone, at |-> "idle", fd |-> "none",
         data |-> <<>>, res |-> Pending]

InitRace ==
    /\ fs \in {<<>>,
               RacePath :> File(Serialize(BuiltinRegistry["json"], StoredFirst))}
    /\ initial = fs
    /\ registry = BuiltinRegistry
    /\ last = Call("init", <<>>, "", PyNone, Return(PyNone), Absent, "other")
    /\ objs = {}
    /\ format_order = <<"npy", "json">>
    /\ history = <<>>
    /\ pc = "none"
    /\ threads = [t \in Callers |-> Idle]

RaceFrame == UNCHANGED <<registry, last, objs, initial, format_order, history, pc>>

\* save up to the open of write_bytes: the serializer and the path are found,
\* the value is serialized, the file is opened
SaveOpen(t) ==
    \E value \in RaceValues :
        /\ threads[t].at = "idle"
        /\ Registered(registry, "json") /\ KnownExtension("json")
        /\ fs' = open_wb(fs, RacePath).fs
        /\ threads' = [threads EXCEPT ![t] =
              [op |-> "save", val |-> value, at |-> "opened", fd |-> "open",
               data |-> Serialize(registry["json"], value), res |-> Pending]]
        /\ RaceFrame

\* the write of write_bytes; it changes the directory's file only if the
\* opened file still has its name
SaveWrite(t) ==
    /\ threads[t].op = "save" /\ threads[t].at = "opened"
    /\ fs' = IF threads[t].fd = "open"
             THEN write_opened(fs, RacePath, threads[t].data).fs ELSE fs
    /\ threads' = [threads EXCEPT ![t].at = "done", ![t].fd = "none",
                                  ![t].res = Return(PyNone)]
    /\ RaceFrame

\* get up to its exists() test
GetCheck(t) ==
    /\ threads[t].at = "idle"
    /\ Registered(registry, "json") /\ KnownExtension("json")
    /\ threads' = [threads EXCEPT ![t] =
          IF PathExists(fs, RacePath)
          THEN [Idle EXCEPT !.op = "get", !.at = "checked"]
          ELSE [Idle EXCEPT !.op = "get", !.at = "done", !.res = NotFound]]
    /\ UNCHANGED fs /\ RaceFrame

\* read_bytes and deserialize
GetRead(t) ==
    LET data == read_bytes(fs, RacePath)
    IN  /\ threads[t].op = "get" /\ threads[t].at = "checked"
        /\ threads' = [threads EXCEPT ![t].at = "done",
              ![t].res = IF ~Returned(data) THEN data
                         ELSE Deserialize(registry["json"], data[2])]
        /\ UNCHANGED fs /\ RaceFrame

\* delete up to its exists() test
DeleteCheck(t) ==
    /\ threads[t].at = "idle"
    /\ KnownExtension("json")
    /\ threads' = [threads EXCEPT ![t] =
          IF PathExists(fs, RacePath)
          THEN [Idle EXCEPT !.op = "delete", !.at = "checked"]
          ELSE [Idle EXCEPT !.op = "delete", !.at = "done", !.res = False]]
    /\ UNCHANGED fs /\ RaceFrame

\* unlink and return True; a file another caller has open loses its name
DeleteUnlink(t) ==
    LET gone == unlink(fs, RacePath)
    IN  /\ threads[t].op = "delete" /\ threads[t].at = "checked"
        /\ fs' = gone.fs
        /\ threads' = [u \in Callers |->
              IF u = t
              THEN [threads[t] EXCEPT !.at = "done",
                        !.res = IF Returned(gone.res) THEN True ELSE gone.res]
              ELSE IF Returned(gone.res) /\ threads[u].fd = "open"
              THEN [threads[u] EXCEPT !.fd = "orphan"]
              ELSE threads[u]]
        /\ RaceFrame

NextRace ==
    \E t \in Callers :
        \/ SaveOpen(t) \/ SaveWrite(t)
        \/ GetCheck(t) \/ GetRead(t)
        \/ DeleteCheck(t) \/ DeleteUnlink(t)

SpecRace == InitRace /\ [][NextRace]_vars

\* both calls are over
AllDone == \A t \in Callers : threads[t].at = "done"
Ops == {threads[t].op : t \in Callers}

\* ---- C14
\* C14: in every interleaving a delete returns a boolean and never raises
\* because the file is gone; of two concurrent deletes of an object that
\* exists exactly one returns true.
C14_DeleteNeverRaises ==
    /\ \A t \in Callers :
          threads[t].op = "delete" /\ threads[t].at = "done"
            => threads[t].res \in {True, False}
    /\ Ops = {"delete"} /\ AllDone /\ PathExists(initial, RacePath)
         => Cardinality({t \in Callers : threads[t].res = True}) = 1

\* ---- C15
\* C15: a get that runs while the other caller deletes the same object
\* returns the stored value or fails with "Key not found", nothing else.
C15_GetValueOrNotFound ==
    \A t \in Callers :
        /\ threads[t].op = "get" /\ threads[t].at = "done"
        /\ \E u \in Callers : threads[u].op = "delete"
        => threads[t].res \in
              {Deserialize(registry["json"], Serialize(registry["json"], StoredFirst)),
               NotFound}

\* ---- C16
SaveData == {threads[t].data : t \in {u \in Callers : threads[u].op = "save"}}

\* C16: when two saves of the same pair are both over, the file
\* holds exactly what one of them serialized; when a save and a delete are
\* both over, the object is absent or holds exactly what was saved.
C16_LastWriterWins ==
    AllDone =>
        /\ Ops = {"save"} => EntryAt(fs, RacePath) \in {File(d) : d \in SaveData}
        /\ Ops = {"save", "delete"}
             => EntryAt(fs, RacePath) \in {Absent} \cup {File(d) : d \in SaveData}

\* ---- C17
\* C17: the registry of a storage is always the one __init__ built, whatever
\* save, get, exists, count and delete were called; the formats it holds are
\* the keys of FORMAT_TO_EXTENSION, json and npy; so save and get fail with
\* an unsupported-format KeyError exactly for the formats that have neither
\* a serializer nor an extension, and no format has one without the other.
C17_RegistryMatchesExtensions ==
    /\ registry = BuiltinRegistry
    /\ registry = register(register(<<>>, <<>>, "NumpySerializer").map,
                           <<"npy">>, "JsonSerializer").map
    /\ LET formats == supported_formats(registry, format_order)
       IN  {formats[i] : i \in 1..Len(formats)} = DOMAIN FORMAT_TO_EXTENSION
    /\ DOMAIN registry = {"json", "npy"}
    /\ \A format \in {"json", "npy", "xml"} :
          Registered(registry, format) <=> KnownExtension(format)
    /\ last.op \in {"save", "get"}
         => /\ last.res \in UnsupportedFormat
                 <=> ~Registered(registry, last.fmt) /\ ~KnownExtension(last.fmt)
            /\ last.res \notin UnsupportedFormat
                 => Registered(registry, last.fmt) /\ KnownExtension(last.fmt)

\* a get that found its object after saves and deletes had been made
C17_Witness ==
    /\ last.op = "get" /\ Returned(last.res) /\ last.after = "other"
    /\ Cardinality(objs) = 2
    /\ registry = BuiltinRegistry

\* ---- C18
\* C18: a save with a supported format whose serializer raises on the value
\* raises that error to the caller and leaves the directory as it was: an
\* object stored before keeps its content, no file is created or emptied.
C18_FailedSerializeKeepsFiles ==
    [][/\ last'.op = "save"
       /\ Registered(registry, last'.fmt) /\ KnownExtension(last'.fmt)
       /\ SerializeRaises(registry[last'.fmt], last'.val)
       => /\ last'.res = Raise("UnicodeEncodeError", "")
          /\ fs' = fs
          /\ EntryAt(fs', _build_path(last'.key, last'.fmt)) = last'.pre]_vars

\* a save that failed in serialize over an object stored before, while
\* another key still has no file
C18_Witness ==
    /\ last.op = "save" /\ last.res = Raise("UnicodeEncodeError", "")
    /\ last.pre # Absent
    /\ EntryAt(fs, _build_path(last.key, last.fmt)) = last.pre
    /\ \E key \in Keys : ~PathExists(fs, _build_path(key, "json"))

\* ===================================== a further instance over the directory
\* faulty variant: the constructor starts from an empty directory
mkdir_fresh(dir) == <<>>

\* self._base_path.mkdir(parents=True, exist_ok=True) on the content of the
\* base directory: a directory that exists is left as it is
mkdir(dir) == dir

\* LocalFileStorage(base_path) once more, over the directory as it is now;
\* the calls after it go to the new instance and its registry
Reopen ==
    /\ fs' = mkdir(fs)
    /\ registry' = BuiltinRegistry
    /\ format_order' = <<"npy", "json">>
    /\ last' = Call("init", <<>>, "", PyNone, Return(PyNone), Absent, "other")
    /\ UNCHANGED <<objs, initial, history, pc, threads>>

NextReopen ==
    Reopen \/ SaveOneKey \/ GetOneKey \/ ExistsOneKey \/ Count \/ DeleteOneKey

SpecReopen == InitExisting /\ [][NextReopen]_vars

\* ---- C19
\* C19: constructing a storage over a base directory that exists leaves
\* every entry of it as it was, and the new instance answers exists, get and
\* count as the instance before it would have.
C19_ReopenKeepsObjects ==
    [][last'.op = "init"
        => /\ fs' = fs
           /\ \A p \in DOMAIN fs : EntryAt(fs', p) = fs[p]
           /\ count(fs').res = count(fs).res
           /\ \A <<key, format>> \in OneKey :
                /\ exists(fs', key, format).res = exists(fs, key, format).res
                /\ get(fs', registry', key, format).res
                     = get(fs, registry, key, format).res]_vars

\* a new instance over a directory that holds foreign entries and an object
\* saved through the instance before, which the new one finds
C19_Witness ==
    /\ last.op = "init" /\ initial = ForeignEntries
    /\ objs = {<<<<"a">>, "json">>}
    /\ exists(fs, <<"a">>, "json").res = True
    /\ Returned(get(fs, registry, <<"a">>, "json").res)
    /\ count(fs).res = Return(PyInt(2))
====
